---------------------------- MODULE Spec2Model ----------------------------
(***************************************************************************)
(* Model of the smart-traffic backend: the POST /route handler             *)
(* (backend/index.js) and the route computation it calls (routing.js:      *)
(* haversine, pointInPolygon, computeSafeRoute with closestNode, edgeCost, *)
(* extractMin, the Dijkstra loop and the path reconstruction).             *)
(*                                                                         *)
(* Units.  Coordinates are whole degrees on the grid {0,2} x {0,2}; the    *)
(* midpoint of two grid points is then a whole number of degrees as well.  *)
(* Distances are metres, rounded to the metre.  A congestion score is      *)
(* kept in halves (2 stands for 1.0) and a flood severity in fifths        *)
(* (5 stands for 1.0), so that 1 + 2*congestion and 1 + 5*severity are     *)
(* whole numbers.  An optional value (a field that may be null or absent)  *)
(* is a sequence: <<>> when absent, <<v>> when present.  A node id is a    *)
(* number 1, 2, ...; an edge key "a_b" is the pair <<a, b>>.               *)
(***************************************************************************)
EXTENDS Integers, Sequences, FiniteSets, TLC

VARIABLES
    pc,           \* position of the request in the handler / computeSafeRoute
    body,         \* req.body: [valid, src, dst]
    nodes,        \* nodes: id -> [id, lat, lng, neighbors]
    trafficList,  \* traffic documents
    floodsList,   \* flood documents
    trafficMap,   \* computeSafeRoute: trafficMap
    start,        \* computeSafeRoute: start (id, NoNode for null)
    end,          \* computeSafeRoute: end (id, NoNode for null)
    dist,         \* computeSafeRoute: dist
    prev,         \* computeSafeRoute: prev
    visited,      \* computeSafeRoute: visited
    iters,        \* number of iterations of the while (true) loop so far
    cur,          \* computeSafeRoute: cur of the reconstruction loop
    path,         \* computeSafeRoute: path (node ids) of the reconstruction loop
    result,       \* value returned by computeSafeRoute
    response,     \* what the handler answered
    log,          \* documents added to route_requests by this request
    resp,         \* the reply of OSRM the handler is working on
    costEdge,     \* edge whose cost is evaluated (cost specification)
    cost          \* last value of edgeCost (cost specification)

vars == <<pc, body, nodes, trafficList, floodsList, trafficMap, start, end,
          dist, prev, visited, iters, cur, path, result, response, log, resp,
          costEdge, cost>>

---------------------------------------------------------------------------
(* Values *)

\* null for a node id (prev[n.id] = null, start: null, end: null)
NoNode == 0

\* JavaScript's Infinity: larger than every finite cost of the model
Infinity == 2000000000

\* Largest number of neighbor references in the whole road graph
MaxEdges == 3

\* x + y on numbers extended with Infinity
Plus(x, y) == IF x = Infinity \/ y = Infinity THEN Infinity ELSE x + y

\* a ?? b on optional values
Coalesce(a, b) == IF a # <<>> THEN a ELSE b

---------------------------------------------------------------------------
(* Geo-metrics *)

\* Great-circle distance in metres between two grid points, rounded to the
\* metre (R = 6371e3).  Two degrees along a meridian, or along the equator,
\* are 222390 m; two degrees along the parallel of latitude 2 are 222254 m;
\* the diagonals of the grid cell are 314475 m.
haversine(a, b) ==
    LET dLat == IF b.lat < a.lat THEN a.lat - b.lat ELSE b.lat - a.lat
        dLon == IF b.lng < a.lng THEN a.lng - b.lng ELSE b.lng - a.lng
    IN  IF dLat = 0 /\ dLon = 0 THEN 0
        ELSE IF dLon = 0 THEN 222390
        ELSE IF dLat = 0 THEN (IF a.lat = 0 THEN 222390 ELSE 222254)
        ELSE 314475

\* One edge (polygon[i], polygon[j]) of the ray casting: does the ray from
\* the point cross it?  x < (xj - xi) * (y - yi) / (yj - yi) + xi is decided
\* without division, by the sign of yj - yi (never 0 when the first
\* conjunct holds).
Intersect(point, polygon, i) ==
    LET n  == Len(polygon)
        j  == IF i = 1 THEN n ELSE i - 1
        x  == point.lng
        y  == point.lat
        xi == polygon[i].lng
        yi == polygon[i].lat
        xj == polygon[j].lng
        yj == polygon[j].lat
    IN  /\ (yi > y) # (yj > y)
        /\ IF yj - yi > 0
              THEN (x - xi) * (yj - yi) < (xj - xi) * (y - yi)
              ELSE (x - xi) * (yj - yi) > (xj - xi) * (y - yi)

\* Even-odd ray casting; false for fewer than 3 vertices
pointInPolygon(point, polygon) ==
    IF Len(polygon) < 3 THEN FALSE
    ELSE Cardinality({i \in 1..Len(polygon) : Intersect(point, polygon, i)}) % 2 = 1

---------------------------------------------------------------------------
(* Graph builder and cost model *)

\* trafficMap[t.edgeId] = t.congestionScore ?? t.score ?? 0 for the records
\* list[i..], in order (a later record overwrites an earlier one); records
\* without edgeId are skipped
RECURSIVE BuildTrafficMap(_, _, _)
BuildTrafficMap(list, i, m) ==
    IF i > Len(list) THEN m
    ELSE LET t == list[i]
             v == Coalesce(Coalesce(t.congestionScore, t.score), <<0>>)[1]
         IN  IF t.edgeId = <<>> THEN BuildTrafficMap(list, i + 1, m)
             ELSE BuildTrafficMap(list, i + 1,
                      [k \in DOMAIN m \cup {t.edgeId[1]} |->
                          IF k = t.edgeId[1] THEN v ELSE m[k]])

\* trafficMap[key], absent when the key is not in the map
TrafficAt(m, key) == IF key \in DOMAIN m THEN <<m[key]>> ELSE <<>>

\* f.severity || 1, in fifths: an absent or zero severity counts as 1.0
SeverityOrOne(f) ==
    IF f.severity = <<>> \/ f.severity[1] = 0 THEN 5 ELSE f.severity[1]

\* The flood loop of edgeCost over floodsList[i..]: base *= (1 + 5 * severity)
\* for every zone whose polygon contains the midpoint
RECURSIVE FloodPenalty(_, _, _, _)
FloodPenalty(mid, floods, i, base) ==
    IF i > Len(floods) THEN base
    ELSE IF pointInPolygon(mid, floods[i].polygon)
         THEN FloodPenalty(mid, floods, i + 1, base * (1 + SeverityOrOne(floods[i])))
         ELSE FloodPenalty(mid, floods, i + 1, base)

\* edgeCost(aId, bId) for the given nodes, trafficMap and floodsList
EdgeCostOf(ns, tmap, floods, aId, bId) ==
    IF aId \notin DOMAIN ns \/ bId \notin DOMAIN ns THEN Infinity
    ELSE LET a == ns[aId]
             b == ns[bId]
             traffic == Coalesce(Coalesce(TrafficAt(tmap, <<aId, bId>>),
                                          TrafficAt(tmap, <<bId, aId>>)), <<0>>)[1]
             mid == [lat |-> (a.lat + b.lat) \div 2, lng |-> (a.lng + b.lng) \div 2]
         IN  FloodPenalty(mid, floods, 1, haversine(a, b) * (1 + traffic))

\* edgeCost as the closure computeSafeRoute defines it
edgeCost(aId, bId) == EdgeCostOf(nodes, trafficMap, floodsList, aId, bId)

---------------------------------------------------------------------------
(* computeSafeRoute: snapping, selection, relaxation, result *)

\* closestNode: linear scan of nodeArray[i..] keeping the first node with
\* the strictly smallest distance; null (NoNode) for an empty node list
RECURSIVE ClosestFrom(_, _, _, _, _)
ClosestFrom(ns, point, i, best, bestDist) ==
    IF i > Len(ns) THEN best
    ELSE LET d == haversine(point, [lat |-> ns[i].lat, lng |-> ns[i].lng])
         IN  IF d < bestDist
                THEN ClosestFrom(ns, point, i + 1, ns[i].id, d)
                ELSE ClosestFrom(ns, point, i + 1, best, bestDist)

closestNode(ns, point) == ClosestFrom(ns, point, 1, NoNode, Infinity)

\* adj[n.id]: the neighbor ids of n (the handler stores them as plain ids)
adj(u) == nodes[u].neighbors

\* Mutant of InitDist: dist[start.id] = 0 is forgotten
InitDistNoStart(ns, s) == [id \in DOMAIN ns |-> Infinity]

\* dist and prev as the for loop over nodeArray leaves them, then
\* dist[start.id] = 0
InitDist(ns, s) == [id \in DOMAIN ns |-> IF id = s THEN 0 ELSE Infinity]

InitPrev(ns) == [id \in DOMAIN ns |-> NoNode]

\* The for-in loop of extractMin over the ids i.. of dist, in insertion order
RECURSIVE ExtractMinFrom(_, _)
ExtractMinFrom(i, best) ==
    IF i > Len(nodes) THEN best
    ELSE IF i \notin visited /\ (best = NoNode \/ dist[i] < dist[best])
         THEN ExtractMinFrom(i + 1, i)
         ELSE ExtractMinFrom(i + 1, best)

\* Mutant of extractMin: the first unvisited id, whatever its distance
RECURSIVE FirstUnvisitedFrom(_)
FirstUnvisitedFrom(i) ==
    IF i > Len(nodes) THEN NoNode
    ELSE IF i \notin visited THEN i ELSE FirstUnvisitedFrom(i + 1)

ExtractFirstUnvisited == FirstUnvisitedFrom(1)

\* Mutant of extractMin: the smallest dist among all ids, visited or not
RECURSIVE MinOfAllFrom(_, _)
MinOfAllFrom(i, best) ==
    IF i > Len(nodes) THEN best
    ELSE IF best = NoNode \/ dist[i] < dist[best]
         THEN MinOfAllFrom(i + 1, i)
         ELSE MinOfAllFrom(i + 1, best)

ExtractMinOfAll == MinOfAllFrom(1, NoNode)

\* extractMin(): the unvisited id with the smallest dist, null when none is left
extractMin == ExtractMinFrom(1, NoNode)

\* Mutant of RelaxEdge: visited neighbors are relaxed as well
RelaxEdgeRevisit(u, v, vis, dp) ==
    LET alt == Plus(dp.dist[u], edgeCost(u, v))
    IN  IF v \in DOMAIN dp.dist /\ alt < dp.dist[v]
           THEN [dist |-> [dp.dist EXCEPT ![v] = alt],
                 prev |-> [dp.prev EXCEPT ![v] = u]]
           ELSE dp

\* One relaxation: the new [dist, prev] after looking at neighbor v of u,
\* with vis the visited set (u included)
RelaxEdge(u, v, vis, dp) ==
    IF v \in vis THEN dp
    ELSE LET alt == Plus(dp.dist[u], edgeCost(u, v))
         IN  IF v \in DOMAIN dp.dist /\ alt < dp.dist[v]
                THEN [dist |-> [dp.dist EXCEPT ![v] = alt],
                      prev |-> [dp.prev EXCEPT ![v] = u]]
                ELSE dp

\* The loop for (const v of adj[u]) over nbrs[i..]
RECURSIVE RelaxFrom(_, _, _, _, _)
RelaxFrom(u, nbrs, i, vis, dp) ==
    IF i > Len(nbrs) THEN dp
    ELSE RelaxFrom(u, nbrs, i + 1, vis, RelaxEdge(u, nbrs[i], vis, dp))

\* Mutant of Unreached: the check for an unreached destination is missing
UnreachedNever(d, e) == FALSE

\* dist[cur] === Infinity for cur = end.id: the destination was never reached
Unreached(d, e) == d[e] = Infinity

\* Mutant of Unshift: push instead of unshift
Push(p, c) == Append(p, c)

\* path.unshift(nodes[cur])
Unshift(p, c) == <<c>> \o p

\* path.map(n => ({lat, lng, id}))
PathOut(p) == [i \in 1..Len(p) |->
                  [lat |-> nodes[p[i]].lat, lng |-> nodes[p[i]].lng, id |-> nodes[p[i]].id]]

---------------------------------------------------------------------------
(* Inputs: the road, traffic and flood collections and the request body *)

Pt(la, ln) == [lat |-> la, lng |-> ln]

\* Coordinates of the road nodes 1, 2, 3
NodeCoords == <<Pt(0, 0), Pt(0, 2), Pt(2, 2)>>

\* Ids a neighbor reference may hold: the road nodes and one unknown id
RefIds == 1..(Len(NodeCoords) + 1)

\* Lists of at most MaxEdges neighbor references <<u, v>> among n nodes
EdgeSeqs(n) ==
    UNION {[1..k -> (1..n) \X RefIds] : k \in 0..MaxEdges}

\* The targets of the references of u, in order
RECURSIVE NeighborsOf(_, _, _)
NeighborsOf(edges, u, i) ==
    IF i > Len(edges) THEN <<>>
    ELSE IF edges[i][1] = u THEN <<edges[i][2]>> \o NeighborsOf(edges, u, i + 1)
         ELSE NeighborsOf(edges, u, i + 1)

\* The nodes object the handler builds from the roads collection
MakeNodes(n, edges) ==
    [id \in 1..n |-> [id |-> id, lat |-> NodeCoords[id].lat, lng |-> NodeCoords[id].lng,
                      neighbors |-> NeighborsOf(edges, id, 1)]]

TrafficDoc(e, c, sc) == [edgeId |-> e, congestionScore |-> c, score |-> sc]

\* Traffic collections of the route specification: none; congestion 1.0 on
\* the diagonal 1-3; congestion -1.0 on 1-2, stored under the reverse key
NegativeTraffic == <<TrafficDoc(<<<<2, 1>>>>, <<-2>>, <<>>)>>

TrafficLists ==
    { <<>>, <<TrafficDoc(<<<<1, 3>>>>, <<2>>, <<>>)>>, NegativeTraffic }

\* A triangle that contains the midpoint of 1-2 and no other midpoint
ZoneSouth == <<Pt(-1, 0), Pt(-1, 3), Pt(1, 0)>>

\* A square that contains every midpoint
ZoneAll == <<Pt(-1, -1), Pt(-1, 3), Pt(3, 3), Pt(3, -1)>>

\* Two vertices only: not a polygon
ZoneDegenerate == <<Pt(-1, -1), Pt(3, 3)>>

FloodDoc(poly, sev) == [polygon |-> poly, severity |-> sev]

\* Flood collections of the route specification: none; severity 1.0 over 1-2
FloodLists == { <<>>, <<FloodDoc(ZoneSouth, <<5>>)>> }

\* Request bodies: src and dst are present (valid) or src is missing
SrcPoints == {Pt(0, 0), Pt(2, 0)}

DstPoints == {Pt(0, 0), Pt(0, 2), Pt(2, 2)}

ValidBodies == {[src |-> <<s>>, dst |-> <<d>>] : s \in SrcPoints, d \in DstPoints}

InvalidBody == [src |-> <<>>, dst |-> <<Pt(0, 0)>>]

\* What the external routing service may answer: a route; a route of
\* distance and duration 0; code Ok without routes; another code; an HTTP
\* error (or a failed fetch)
OsrmRoute == [distance |-> 250000, duration |-> 9000,
              coordinates |-> <<<<0, 0>>, <<2, 2>>>>]

OsrmZeroRoute == [distance |-> 0, duration |-> 0,
                  coordinates |-> <<<<0, 0>>, <<2, 2>>>>]

OsrmReplies ==
    { [ok |-> TRUE,  code |-> "Ok",      routes |-> <<OsrmRoute>>],
      [ok |-> TRUE,  code |-> "Ok",      routes |-> <<OsrmZeroRoute>>],
      [ok |-> TRUE,  code |-> "Ok",      routes |-> <<>>],
      [ok |-> TRUE,  code |-> "NoRoute", routes |-> <<>>],
      [ok |-> FALSE, code |-> "",        routes |-> <<>>] }

---------------------------------------------------------------------------
(* State after construction: a request has arrived, nothing is computed *)

NoLocals ==
    /\ trafficMap = [k \in {} |-> 0]
    /\ start = NoNode
    /\ end = NoNode
    /\ dist = <<>>
    /\ prev = <<>>
    /\ visited = {}
    /\ iters = 0
    /\ cur = NoNode
    /\ path = <<>>
    /\ result = <<>>
    /\ response = <<>>
    /\ log = <<>>
    /\ resp = <<>>

Init ==
    /\ pc = "request"
    /\ \E n \in 0..Len(NodeCoords) : \E edges \in EdgeSeqs(n) :
          nodes = MakeNodes(n, edges)
    /\ trafficList \in TrafficLists
    /\ floodsList \in FloodLists
    /\ body \in ValidBodies \cup {InvalidBody}
    \* a rejected request reads no collection: one state stands for all
    /\ body = InvalidBody => (nodes = <<>> /\ trafficList = <<>> /\ floodsList = <<>>)
    /\ NoLocals
    /\ costEdge = <<>>
    /\ cost = 0

---------------------------------------------------------------------------
(* POST /route: one action for each stretch of the handler between awaits *)

\* The body check that answers 400
BadBody(b) == b.src = <<>> \/ b.dst = <<>>

ErrorResponse(st) == [status |-> st, ok |-> FALSE, route |-> <<>>]

\* x || null on an optional number: 0 is falsy
OrNull(x) == IF x = <<>> \/ x = <<0>> THEN <<>> ELSE x

\* The route answered for an OSRM route r
OsrmResult(r) ==
    [path |-> [i \in 1..Len(r.coordinates) |->
                  [lat |-> r.coordinates[i][2], lng |-> r.coordinates[i][1]]],
     distance_m |-> <<r.distance>>,
     method |-> "OSRM"]

\* The document logged for an OSRM route r
OsrmLog(r) ==
    [method |-> "OSRM", distance_m |-> OrNull(<<r.distance>>),
     duration_s |-> OrNull(<<r.duration>>)]

\* osrmData.code === "Ok" && osrmData.routes && osrmData.routes.length > 0
OsrmHasRoute(reply) == reply.code = "Ok" /\ Len(reply.routes) > 0

\* The document logged after computeSafeRoute
DijkstraLog(res) ==
    [method |-> "Dijkstra", distance_m |-> OrNull(res.distance_m),
     start |-> res.start, end |-> res.end]

\* !result.path || result.path.length === 0
NoPath(res) == Len(res.path) = 0

inputs == <<body, nodes, trafficList, floodsList>>

locals == <<trafficMap, start, end, dist, prev, visited, iters, cur, path>>

costVars == <<costEdge, cost>>

RejectBody ==
    /\ pc = "request"
    /\ BadBody(body)
    /\ response' = <<ErrorResponse(400)>>
    /\ pc' = "responded"
    /\ UNCHANGED <<inputs, locals, result, log, resp, costVars>>

\* One of the reads of roads, traffic and floods rejects: the outer catch
\* answers 500
ReadFails ==
    /\ \/ pc = "request" /\ ~BadBody(body)
       \/ pc = "traffic"
       \/ pc = "floods"
    /\ response' = <<ErrorResponse(500)>>
    /\ pc' = "responded"
    /\ UNCHANGED <<inputs, locals, result, log, resp, costVars>>

\* The roads collection is read and holds nothing
NoRoads ==
    /\ pc = "request"
    /\ ~BadBody(body)
    /\ Len(nodes) = 0
    /\ pc' = "noRoads"
    /\ UNCHANGED <<inputs, locals, result, response, log, resp, costVars>>

\* The roads collection is read and nodes is built
RoadsLoaded ==
    /\ pc = "request"
    /\ ~BadBody(body)
    /\ Len(nodes) > 0
    /\ pc' = "traffic"
    /\ UNCHANGED <<inputs, locals, result, response, log, resp, costVars>>

\* The traffic collection is read
TrafficLoaded ==
    /\ pc = "traffic"
    /\ pc' = "floods"
    /\ UNCHANGED <<inputs, locals, result, response, log, resp, costVars>>

\* fetch of OSRM when the roads collection is empty: a reply to read, or
\* (fetch rejects, or !resp.ok) the inner catch answers 500
OsrmNoRoads ==
    /\ pc = "noRoads"
    /\ \E reply \in OsrmReplies :
          IF reply.ok
             THEN /\ resp' = <<reply>>
                  /\ pc' = "noRoadsJson"
                  /\ UNCHANGED response
             ELSE /\ response' = <<ErrorResponse(500)>>
                  /\ pc' = "responded"
                  /\ UNCHANGED resp
    /\ UNCHANGED <<inputs, locals, result, log, costVars>>

\* resp.json() (no roads): a route to log, or the inner catch answers 500
\* (a body that does not parse ends as a body without a route does)
NoRoadsParsed ==
    /\ pc = "noRoadsJson"
    /\ IF OsrmHasRoute(resp[1])
          THEN /\ pc' = "noRoadsAdd"
               /\ UNCHANGED response
          ELSE /\ response' = <<ErrorResponse(500)>>
               /\ pc' = "responded"
    /\ UNCHANGED <<inputs, locals, result, log, resp, costVars>>

\* The OSRM route is logged (no roads)
NoRoadsLogged ==
    /\ pc = "noRoadsAdd"
    /\ log' = Append(log, OsrmLog(resp[1].routes[1]))
    /\ pc' = "osrmAnswer"
    /\ UNCHANGED <<inputs, locals, result, response, resp, costVars>>

\* The write of the OSRM log fails (no roads): the inner catch answers 500
NoRoadsLogFails ==
    /\ pc = "noRoadsAdd"
    /\ response' = <<ErrorResponse(500)>>
    /\ pc' = "responded"
    /\ UNCHANGED <<inputs, locals, result, log, resp, costVars>>

\* The floods collection is read; computeSafeRoute up to the loop:
\* trafficMap, snapping, dist and prev
BeginCompute ==
    /\ pc = "floods"
    /\ LET s == closestNode(nodes, body.src[1])
           e == closestNode(nodes, body.dst[1])
       IN  /\ trafficMap' = BuildTrafficMap(trafficList, 1, [k \in {} |-> 0])
           /\ start' = s
           /\ end' = e
           /\ IF s = NoNode \/ e = NoNode
                 THEN /\ result' = <<[path |-> <<>>, start |-> NoNode, end |-> NoNode,
                                      distance_m |-> <<>>]>>
                      /\ pc' = "returned"
                      /\ UNCHANGED <<dist, prev>>
                 ELSE /\ dist' = InitDist(nodes, s)
                      /\ prev' = InitPrev(nodes)
                      /\ pc' = "search"
                      /\ UNCHANGED result
    /\ UNCHANGED <<inputs, visited, iters, cur, path, response, log, resp, costVars>>

\* An iteration of while (true) that breaks: nothing left, or the destination
SearchDone ==
    /\ pc = "search"
    /\ extractMin = NoNode \/ extractMin = end
    /\ iters' = iters + 1
    /\ pc' = "reconstruct"
    /\ UNCHANGED <<inputs, trafficMap, start, end, dist, prev, visited, cur, path,
                   result, response, log, resp, costVars>>

\* An iteration of while (true) that visits u and relaxes its edges
SearchRelax ==
    /\ pc = "search"
    /\ extractMin # NoNode /\ extractMin # end
    /\ LET u == extractMin
           vis == visited \cup {u}
           dp == RelaxFrom(u, adj(u), 1, vis, [dist |-> dist, prev |-> prev])
       IN  /\ visited' = vis
           /\ dist' = dp.dist
           /\ prev' = dp.prev
    /\ iters' = iters + 1
    /\ UNCHANGED <<pc, inputs, trafficMap, start, end, cur, path, result, response,
                   log, resp, costVars>>

\* cur = end.id; the empty result when the destination was never reached
Reconstruct ==
    /\ pc = "reconstruct"
    /\ cur' = end
    /\ IF Unreached(dist, end)
          THEN /\ result' = <<[path |-> <<>>, start |-> start, end |-> end,
                               distance_m |-> <<>>]>>
               /\ pc' = "returned"
          ELSE /\ pc' = "walk"
               /\ UNCHANGED result
    /\ UNCHANGED <<inputs, trafficMap, start, end, dist, prev, visited, iters, path,
                   response, log, resp, costVars>>

\* An iteration of while (cur)
WalkStep ==
    /\ pc = "walk"
    /\ cur # NoNode
    /\ path' = Unshift(path, cur)
    /\ cur' = prev[cur]
    /\ UNCHANGED <<pc, inputs, trafficMap, start, end, dist, prev, visited, iters,
                   result, response, log, resp, costVars>>

\* The end of while (cur) and the return of the route
WalkDone ==
    /\ pc = "walk"
    /\ cur = NoNode
    /\ result' = <<[path |-> PathOut(path), start |-> start, end |-> end,
                    distance_m |-> <<dist[end]>>]>>
    /\ pc' = "returned"
    /\ UNCHANGED <<inputs, locals, response, log, resp, costVars>>

\* Back in the handler: fall back to OSRM when no path was found
CheckResult ==
    /\ pc = "returned"
    /\ pc' = IF NoPath(result[1]) THEN "fallback" ELSE "log"
    /\ UNCHANGED <<inputs, locals, result, response, log, resp, costVars>>

\* fetch of OSRM after an empty path: a reply to read, or (fetch rejects, or
\* !resp.ok) the inner catch reports it and the handler goes on to the
\* Dijkstra log
OsrmFallback ==
    /\ pc = "fallback"
    /\ \E reply \in OsrmReplies :
          IF reply.ok
             THEN /\ resp' = <<reply>>
                  /\ pc' = "fallbackJson"
             ELSE /\ pc' = "log"
                  /\ UNCHANGED resp
    /\ UNCHANGED <<inputs, locals, result, response, log, costVars>>

\* resp.json() (after an empty path): a route to log, or on to the Dijkstra
\* log (a body that does not parse ends as a body without a route does)
FallbackParsed ==
    /\ pc = "fallbackJson"
    /\ pc' = IF OsrmHasRoute(resp[1]) THEN "fallbackAdd" ELSE "log"
    /\ UNCHANGED <<inputs, locals, result, response, log, resp, costVars>>

\* The OSRM route is logged (after an empty path)
FallbackLogged ==
    /\ pc = "fallbackAdd"
    /\ log' = Append(log, OsrmLog(resp[1].routes[1]))
    /\ pc' = "osrmAnswer"
    /\ UNCHANGED <<inputs, locals, result, response, resp, costVars>>

\* The write of the OSRM log fails (after an empty path): the inner catch
\* only reports it, and the handler goes on to the Dijkstra log
FallbackLogFails ==
    /\ pc = "fallbackAdd"
    /\ pc' = "log"
    /\ UNCHANGED <<inputs, locals, result, response, log, resp, costVars>>

\* res.json with the OSRM route
AnswerOsrm ==
    /\ pc = "osrmAnswer"
    /\ response' = <<[status |-> 200, ok |-> TRUE,
                       route |-> <<OsrmResult(resp[1].routes[1])>>]>>
    /\ pc' = "responded"
    /\ UNCHANGED <<inputs, locals, result, log, resp, costVars>>

\* The route_requests document of the computed result is written
WriteLog ==
    /\ pc = "log"
    /\ log' = Append(log, DijkstraLog(result[1]))
    /\ pc' = "answer"
    /\ UNCHANGED <<inputs, locals, result, response, resp, costVars>>

\* The write of the log fails: the outer catch answers 500
LogFails ==
    /\ pc = "log"
    /\ response' = <<ErrorResponse(500)>>
    /\ pc' = "responded"
    /\ UNCHANGED <<inputs, locals, result, log, resp, costVars>>

\* res.json({ok: true, route: result})
Answer ==
    /\ pc = "answer"
    /\ response' = <<[status |-> 200, ok |-> TRUE, route |-> result]>>
    /\ pc' = "responded"
    /\ UNCHANGED <<inputs, locals, result, log, resp, costVars>>

Next ==
    \/ RejectBody
    \/ ReadFails
    \/ NoRoads
    \/ RoadsLoaded
    \/ TrafficLoaded
    \/ OsrmNoRoads
    \/ NoRoadsParsed
    \/ NoRoadsLogged
    \/ NoRoadsLogFails
    \/ BeginCompute
    \/ SearchDone
    \/ SearchRelax
    \/ Reconstruct
    \/ WalkStep
    \/ WalkDone
    \/ CheckResult
    \/ OsrmFallback
    \/ FallbackParsed
    \/ FallbackLogged
    \/ FallbackLogFails
    \/ AnswerOsrm
    \/ WriteLog
    \/ LogFails
    \/ Answer

Spec == Init /\ [][Next]_vars

\* The requests of the termination check: no flood zones, no traffic or a
\* negative score, and three of the bodies (with three nodes: from 1 to 3,
\* from 3 to 2, from 3 to 3)
FairBodies ==
    { [src |-> <<Pt(0, 0)>>, dst |-> <<Pt(2, 2)>>],
      [src |-> <<Pt(2, 0)>>, dst |-> <<Pt(0, 2)>>],
      [src |-> <<Pt(2, 0)>>, dst |-> <<Pt(2, 2)>>] }

InitFair ==
    /\ Init
    /\ floodsList = <<>>
    /\ trafficList \in {<<>>, NegativeTraffic}
    /\ body \in FairBodies \cup {InvalidBody}

\* The handler runs to its answer: computeSafeRoute is synchronous and every
\* await of the handler completes or fails
FairSpec == InitFair /\ [][Next]_vars /\ WF_vars(Next)

---------------------------------------------------------------------------
(* edgeCost on its own: the cost of one edge for bounded traffic and flood *)
(* collections, and the cost again after one score or severity is raised   *)

CostEdges == {<<1, 2>>, <<2, 1>>, <<1, 3>>, <<1, 4>>}

\* Congestion scores 0, 0.5, 1.0 and severities -1.0, 0, 0.2, 1.0, 2.0
CostScores == {0, 1, 2}

CostSeverities == {-5, 0, 1, 5, 10}

CostTrafficDocs ==
    {TrafficDoc(<<e>>, <<c>>, <<>>) : e \in {<<1, 2>>, <<2, 1>>}, c \in CostScores}
    \cup {TrafficDoc(<<e>>, <<>>, <<2>>) : e \in {<<1, 2>>, <<2, 1>>}}
    \cup {TrafficDoc(<<<<1, 2>>>>, <<>>, <<>>), TrafficDoc(<<>>, <<2>>, <<>>)}

CostTrafficLists ==
    {<<>>} \cup {<<t>> : t \in CostTrafficDocs}
           \cup {<<t, u>> : t \in CostTrafficDocs, u \in CostTrafficDocs}

CostFloodDocs ==
    {FloodDoc(p, <<sv>>) : p \in {ZoneSouth, ZoneAll, ZoneDegenerate}, sv \in CostSeverities}
    \cup {FloodDoc(p, <<>>) : p \in {ZoneSouth, ZoneAll, ZoneDegenerate}}

CostFloodLists ==
    {<<>>} \cup {<<f>> : f \in CostFloodDocs}
           \cup {<<f, g>> : f \in CostFloodDocs, g \in CostFloodDocs}

HasNegativeSeverity(floods) ==
    \E i \in 1..Len(floods) : floods[i].severity # <<>> /\ floods[i].severity[1] < 0

InitCost ==
    /\ pc = "cost"
    /\ nodes = MakeNodes(Len(NodeCoords), <<>>)
    /\ floodsList \in CostFloodLists
    /\ trafficList \in CostTrafficLists
    \* a negative severity is looked at without traffic records
    /\ HasNegativeSeverity(floodsList) => trafficList = <<>>
    /\ costEdge \in CostEdges
    /\ cost = 0
    /\ body = InvalidBody
    /\ NoLocals

\* edgeCost(a, b) once the trafficMap is built
EvalCost ==
    /\ pc = "cost"
    /\ trafficMap' = BuildTrafficMap(trafficList, 1, [k \in {} |-> 0])
    /\ cost' = EdgeCostOf(nodes, trafficMap', floodsList, costEdge[1], costEdge[2])
    /\ pc' = "costed"
    /\ UNCHANGED <<body, nodes, trafficList, floodsList, start, end, dist, prev,
                   visited, iters, cur, path, result, response, log, resp, costEdge>>

\* The same edge with the congestion score of one record raised
RaiseCongestion ==
    /\ pc = "costed"
    /\ \E i \in 1..Len(trafficList) : \E c \in CostScores :
          /\ trafficList[i].congestionScore # <<>>
          /\ trafficList[i].congestionScore[1] < c
          /\ trafficList' = [trafficList EXCEPT ![i].congestionScore = <<c>>]
    /\ trafficMap' = BuildTrafficMap(trafficList', 1, [k \in {} |-> 0])
    /\ cost' = EdgeCostOf(nodes, trafficMap', floodsList, costEdge[1], costEdge[2])
    /\ UNCHANGED <<pc, body, nodes, floodsList, start, end, dist, prev,
                   visited, iters, cur, path, result, response, log, resp, costEdge>>

\* The same edge with the severity of one flood zone raised
RaiseSeverity ==
    /\ pc = "costed"
    /\ \E i \in 1..Len(floodsList) : \E sv \in CostSeverities :
          /\ floodsList[i].severity # <<>>
          /\ floodsList[i].severity[1] < sv
          /\ floodsList' = [floodsList EXCEPT ![i].severity = <<sv>>]
    /\ cost' = EdgeCostOf(nodes, trafficMap, floodsList', costEdge[1], costEdge[2])
    /\ UNCHANGED <<pc, body, nodes, trafficList, trafficMap, start, end, dist, prev,
                   visited, iters, cur, path, result, response, log, resp, costEdge>>

CostNext == EvalCost \/ RaiseCongestion \/ RaiseSeverity

SpecCost == InitCost /\ [][CostNext]_vars

---------------------------------------------------------------------------
(* Properties *)

\* The route has been returned with a path
Routed == pc = "returned" /\ result # <<>> /\ Len(result[1].path) > 0

\* The ids along the returned path
PathIds == [i \in 1..Len(result[1].path) |-> result[1].path[i].id]

\* Sum of edgeCost over the consecutive pairs of p[i..]
RECURSIVE ChainCost(_, _)
ChainCost(p, i) ==
    IF i >= Len(p) THEN 0 ELSE Plus(edgeCost(p[i], p[i + 1]), ChainCost(p, i + 1))

\* Cheapest cost of a chain of at most k neighbor references from s to each node
RECURSIVE Cheapest(_, _)
Cheapest(s, k) ==
    IF k = 0 THEN [v \in DOMAIN nodes |-> IF v = s THEN 0 ELSE Infinity]
    ELSE LET d == Cheapest(s, k - 1)
             Via(v) == {Plus(d[u], edgeCost(u, v)) :
                           u \in {w \in DOMAIN nodes :
                                     \E i \in 1..Len(adj(w)) : adj(w)[i] = v}}
         IN  [v \in DOMAIN nodes |->
                 CHOOSE m \in Via(v) \cup {d[v]} : \A x \in Via(v) \cup {d[v]} : m <= x]

\* All congestion scores are >= 0 and all flood severities are > 0
NonNegativeInputs ==
    /\ \A k \in DOMAIN trafficMap : trafficMap[k] >= 0
    /\ \A i \in 1..Len(floodsList) :
          floodsList[i].severity # <<>> /\ floodsList[i].severity[1] > 0

\* C1: with congestion >= 0 and severity > 0, a returned non-empty path has
\* distance_m equal to the sum of edgeCost along it, and no chain of
\* neighbor references from the start node to the end node costs less.
C1_ShortestPath ==
    (Routed /\ NonNegativeInputs) =>
        /\ result[1].distance_m = <<ChainCost(PathIds, 1)>>
        /\ result[1].distance_m[1] <= Cheapest(start, Len(nodes))[end]

\* C1 witness: a two-edge route was returned although the start node also
\* refers to the end node directly (the direct edge costs more).
C1_Witness ==
    /\ Routed /\ NonNegativeInputs
    /\ Len(result[1].path) = 3
    /\ \E i \in 1..Len(adj(start)) : adj(start)[i] = end

\* Nodes reachable from s along neighbor references between known nodes
RECURSIVE ReachFrom(_, _)
ReachFrom(seen, k) ==
    IF k = 0 THEN seen
    ELSE ReachFrom(seen \cup {v \in DOMAIN nodes :
                                 \E u \in seen : \E i \in 1..Len(adj(u)) : adj(u)[i] = v},
                   k - 1)

Reachable(s, t) == t \in ReachFrom({s}, Len(nodes))

\* C2: when both snapped nodes exist and no chain of neighbor references
\* leads from the start node to the end node, the result has an empty path
\* and start and end are the ids of the snapped nodes.
C2_Unreachable ==
    (pc = "returned" /\ start # NoNode /\ end # NoNode /\ ~Reachable(start, end)) =>
        /\ result[1].path = <<>>
        /\ result[1].start = closestNode(nodes, body.src[1])
        /\ result[1].end = closestNode(nodes, body.dst[1])
        /\ result[1].start # NoNode /\ result[1].end # NoNode

\* C2 witness: the start node has neighbors, none of which leads to the end.
C2_Witness ==
    /\ pc = "returned" /\ start # NoNode /\ end # NoNode
    /\ ~Reachable(start, end)
    /\ Len(adj(start)) > 0
    /\ visited # {}

\* C3: a returned non-empty path starts at the start node, ends at the end
\* node, each element is the recorded predecessor of the next and lists it
\* as a neighbor, and no node appears twice.
C3_PathShape ==
    Routed =>
        LET p == PathIds
        IN  /\ p[1] = start
            /\ p[Len(p)] = end
            /\ \A i \in 1..(Len(p) - 1) :
                  /\ prev[p[i + 1]] = p[i]
                  /\ \E j \in 1..Len(adj(p[i])) : adj(p[i])[j] = p[i + 1]
            /\ \A i, j \in 1..Len(p) : p[i] = p[j] => i = j

\* C3 witness: a path of three nodes was returned.
C3_Witness == Routed /\ Len(result[1].path) = 3

\* C4: when source and destination snap to the same node, distance_m is 0
\* and the path is exactly that node.
C4_SameNode ==
    (pc = "returned" /\ start # NoNode /\ start = end) =>
        /\ result[1].distance_m = <<0>>
        /\ Len(result[1].path) = 1
        /\ result[1].path[1].id = start

\* C4 witness: two different points snapped to one node, which has a
\* self-loop and another neighbor, under traffic and flood data.
C4_Witness ==
    /\ pc = "returned" /\ start # NoNode /\ start = end
    /\ body.src # body.dst
    /\ \E i \in 1..Len(adj(start)) : adj(start)[i] = start
    /\ \E i \in 1..Len(adj(start)) : adj(start)[i] # start
    /\ trafficList # <<>> /\ floodsList # <<>>

\* C5: every tentative distance, and the returned distance_m, is
\* non-negative, for every traffic list (negative scores count as 0).
C5_NonNegativeDistances ==
    /\ \A id \in DOMAIN dist : dist[id] >= 0
    /\ (result # <<>> /\ result[1].distance_m # <<>>) => result[1].distance_m[1] >= 0

\* C6: a flood zone whose severity is absent, zero or negative counts as
\* severity 1: the cost is the cost with that zone's severity set to 1.
C6_NonPositiveSeverityIsOne ==
    pc = "costed" =>
        \A i \in 1..Len(floodsList) :
            (floodsList[i].severity = <<>> \/ floodsList[i].severity[1] <= 0) =>
                cost = EdgeCostOf(nodes, trafficMap,
                                  [floodsList EXCEPT ![i].severity = <<5>>],
                                  costEdge[1], costEdge[2])

\* C7: with everything else fixed, raising the congestion score of a record
\* or the severity of a flood zone never lowers the cost of the edge.
C7_CostMonotone == [][pc = "costed" => cost' >= cost]_vars

\* C8: after computeSafeRoute returned an empty path, the answer is an error
\* or carries a path labelled OSRM, and no Dijkstra route is logged.
C8_EmptyPathUnresolved ==
    (result # <<>> /\ NoPath(result[1])) =>
        /\ pc = "responded" =>
              \/ ~response[1].ok
              \/ /\ "method" \in DOMAIN response[1].route[1]
                 /\ response[1].route[1].method = "OSRM"
                 /\ Len(response[1].route[1].path) > 0
        /\ \A i \in 1..Len(log) : log[i].method # "Dijkstra"

\* C9: during the search a visited node is never selected again, stays
\* visited, and keeps its distance and predecessor; the start node never
\* gets a predecessor.
C9_FinalizedStable ==
    [][pc = "search" =>
          /\ extractMin \notin visited
          /\ visited \subseteq visited'
          /\ \A v \in visited : dist'[v] = dist[v] /\ prev'[v] = prev[v]
          /\ prev[start] = NoNode /\ prev'[start] = NoNode]_vars

\* C9 witness: the search visits a third node while a visited node is still
\* referred to by an unvisited one (a cycle back into the visited set).
C9_Witness ==
    /\ pc = "search"
    /\ Cardinality(visited) = 2
    /\ \E u \in DOMAIN nodes \ visited :
          \E i \in 1..Len(adj(u)) : adj(u)[i] \in visited
    /\ \E u \in visited : \E i \in 1..Len(adj(u)) : adj(u)[i] = u

\* The ids already on the path of the reconstruction loop
OnPath == {path[i] : i \in 1..Len(path)}

\* C10: the request is answered; the search loop runs at most once per node
\* and ends with the destination selected or nothing left; the backward walk
\* never meets a node twice; at the end the destination distance is finite
\* or the path is empty.
C10_Terminates ==
    /\ <>(pc = "responded")
    /\ [](iters <= Len(nodes))
    /\ [](pc = "reconstruct" => (extractMin = end \/ extractMin = NoNode))
    /\ [](pc = "walk" => cur \notin OnPath)
    /\ []((pc = "returned" /\ start # NoNode) =>
             (dist[end] # Infinity \/ result[1].path = <<>>))

\* C10 witness: a request was answered after the loop ran once for each of
\* three nodes, on a graph with a self-loop.
C10_Witness ==
    /\ pc = "responded"
    /\ Len(nodes) = 3 /\ iters = 3
    /\ \E u \in DOMAIN nodes : \E i \in 1..Len(adj(u)) : adj(u)[i] = u

===========================================================================
